---- MODULE Spec2Model ----
(***************************************************************************)
(* State-machine model of the ToDoApp backend: the credential store, the  *)
(* token codec, AuthService, TaskService and the HTTP handlers of          *)
(* app/api/auth.py and app/api/tasks.py.  One action per handler; every    *)
(* action records the request and the response it produced in `last`.     *)
(***************************************************************************)
EXTENDS Integers, Sequences, FiniteSets, TLC

VARIABLES
    users,      \* table "users": sequence of rows, row i has id i
    tasks,      \* table "tasks": sequence of rows, row i has id i
    now,        \* the clock, datetime.now(timezone.utc), in minutes
    ticks,      \* how many times the clock has advanced
    last,       \* the last request handled and its response
    calls       \* requests in flight, one slot per client

vars == <<users, tasks, now, ticks, last, calls>>

----------------------------------------------------------------------------
(* Bounds of the model *)

MaxTicks == 2
MaxTasks == 2
MaxListed == 11

(* Inputs *)

Usernames == {"alice", "bob"}
Passwords == {"StrongPass1!", "OtherPass2?"}
Salts     == {"s1", "s2"}
Infos     == {"Buy milk", "Walk dog"}
Clients   == {1, 2}

----------------------------------------------------------------------------
(* Configuration: app/core/config.py *)

SECRET_KEY == "your-secret-key-here"
OTHER_KEY  == "some-other-key"
ACCESS_TOKEN_EXPIRE_MINUTES == 30
REFRESH_TOKEN_EXPIRE_DAYS   == 7

AccessTTL  == ACCESS_TOKEN_EXPIRE_MINUTES
RefreshTTL == REFRESH_TOKEN_EXPIRE_DAYS * 24 * 60

TickSteps == {AccessTTL, RefreshTTL}

----------------------------------------------------------------------------
(* Token codec: jose.jwt as used by AuthService.  A token string is        *)
(* modelled by what it encodes: the claims and the key that signed it.     *)

NoToken   == [kind |-> "absent",    sub |-> "", typ |-> "", exp |-> 0, key |-> ""]
Malformed == [kind |-> "malformed", sub |-> "", typ |-> "", exp |-> 0, key |-> ""]

jwt_encode(sub, typ, exp, key) ==
    [kind |-> "jwt", sub |-> sub, typ |-> typ, exp |-> exp, key |-> key]

\* jwt.decode with the signature left unverified (options verify_signature
\* False): any well-formed, unexpired token decodes.
jwt_decodes_unverified(token, t) ==
    /\ token.kind = "jwt"
    /\ ~(token.exp < t)

\* jwt.decode(token, SECRET_KEY, ...): TRUE when it returns the payload,
\* FALSE when it raises JWTError (malformed, bad signature, expired).
jwt_decodes(token, t) ==
    /\ token.kind = "jwt"
    /\ token.key = SECRET_KEY
    /\ ~(token.exp < t)

create_access_token(sub, t) == jwt_encode(sub, "access", t + AccessTTL, SECRET_KEY)

create_refresh_token(sub, t) == jwt_encode(sub, "refresh", t + RefreshTTL, SECRET_KEY)

----------------------------------------------------------------------------
(* Password hasher: passlib CryptContext(schemes=["bcrypt"]) *)

NoHash == [alg |-> "", salt |-> "", pw |-> ""]

get_password_hash(password, salt) == [alg |-> "bcrypt", salt |-> salt, pw |-> password]

verify_password(plain, hashed) == hashed.alg = "bcrypt" /\ hashed.pw = plain

----------------------------------------------------------------------------
(* Store rows *)

NoUser == [id |-> 0, username |-> "", hashed_password |-> NoHash,
           refresh_token |-> NoToken, is_active |-> TRUE]

\* nulls: the columns of the row that hold NULL (such a column's field keeps
\* a placeholder value).
NoTask == [id |-> 0, user_id |-> 0, datetime_to_do |-> 0, task_info |-> "",
           is_completed |-> FALSE, created_at |-> 0, updated_at |-> 0, nulls |-> {}]

UserRows(us, username) == {i \in 1..Len(us) : us[i].username = username}

\* select(User).filter(User.username == username) ... scalar_one_or_none()
SelectUser(us, username) ==
    IF UserRows(us, username) = {} THEN NoUser
    ELSE us[CHOOSE i \in UserRows(us, username) : TRUE]

\* select(TaskModel).filter(TaskModel.id == task_id) ... scalar_one_or_none()
SelectTask(ts, task_id) ==
    IF task_id \in 1..Len(ts) THEN ts[task_id] ELSE NoTask

----------------------------------------------------------------------------
(* Requests and responses *)

\* A request body of the task endpoints: the fields that are set, and their
\* values.  user_id is a key a client may add to the JSON body; the schemas
\* do not declare it.  nulls: the fields the body sets to null explicitly.
Body(fields, dt, info, done) ==
    [fields |-> fields, datetime_to_do |-> dt, task_info |-> info, is_completed |-> done,
     user_id |-> 0, nulls |-> {}]

\* The body with "<field>": null added.
WithNull(body, field) ==
    [body EXCEPT !.fields = @ \cup {field}, !.nulls = @ \cup {field}]

WithUserId(body, user_id) ==
    [body EXCEPT !.fields = @ \cup {"user_id"}, !.user_id = user_id]

NoBody == Body({}, 0, "", FALSE)

\* session.commit() returns, or raises an exception of the store: the
\* class of the exception, NoError when there is none, and its str(e).
NoError == ""
StoreErrors == {"OperationalError"}
ExceptionText(e) ==
    IF e = "IntegrityError"
    THEN "(" \o e \o ") null value violates not-null constraint"
    ELSE "(" \o e \o ") connection to the database was lost"

\* A request; db is what the store does to the commit of the request.
Request(op) ==
    [op |-> op, at |-> now, username |-> "", password |-> "", token |-> NoToken,
     task_id |-> 0, body |-> NoBody, db |-> NoError]

Response(req, status, detail) ==
    [op |-> req.op, at |-> req.at, username |-> req.username,
     password |-> req.password, token |-> req.token, task_id |-> req.task_id,
     body |-> req.body, db |-> req.db, status |-> status, detail |-> detail,
     access_token |-> NoToken, refresh_token |-> NoToken, token_type |-> "",
     user |-> NoUser, task |-> NoTask, tasks |-> <<>>, rollbacks |-> 0]

\* What a service call hands back to its handler: a value, an HTTPException
\* (status, detail) or another exception (raised = its class name); `store`
\* is the table as the call leaves it, `rollbacks` the number of
\* session.rollback() calls it made.
Returned(store, row)        == [raised |-> "", status |-> 200, detail |-> "", store |-> store, row |-> row, rollbacks |-> 0]
HTTPException(st, d, store) == [raised |-> "HTTPException", status |-> st, detail |-> d, store |-> store, row |-> NoTask, rollbacks |-> 0]
Raised(cls, store)          == [raised |-> cls, status |-> 0, detail |-> "", store |-> store, row |-> NoTask, rollbacks |-> 0]

\* except Exception as e: await self.session.rollback(); raise HTTPException(500, ...)
RolledBack(detail, store) == [HTTPException(500, detail, store) EXCEPT !.rollbacks = 1]

\* try: ... except HTTPException: raise; except Exception: raise HTTPException(500, ...)
Handled(req, out, detail500) ==
    [(IF out.raised = "" THEN Response(req, out.status, "")
      ELSE IF out.raised = "HTTPException" THEN Response(req, out.status, out.detail)
      ELSE Response(req, 500, detail500))
        EXCEPT !.rollbacks = out.rollbacks]

\* response_model=Task / List[Task]: the rows a handler returned are
\* validated against schema Task after the handler, outside its try; a row
\* with a NULL column fails (is_completed: bool), and the logging middleware
\* of app/main.py answers 500.
Serialized(req, rsp, rows) ==
    IF rsp.status < 400 /\ \E i \in 1..Len(rows) : rows[i].nulls # {}
    THEN Response(req, 500, "Internal server error")
    ELSE rsp

----------------------------------------------------------------------------
(* AuthService: app/services/auth_service.py *)

\* The class body defines _get_user_by_username twice (lines 57 and 121); the
\* later definition, a classmethod taking (session, username), is the one
\* bound to the name.  A call binds its positional arguments to these.
GetUserByUsernameParams == <<"session", "username">>

GetUserCallRaises(args) == Len(args) # Len(GetUserByUsernameParams)

\* A lookup without the filter on User.username: the first row of the table.
get_user_by_username_first_row(us, args) == IF us = <<>> THEN NoUser ELSE us[1]

get_user_by_username(us, args) == SelectUser(us, args[Len(args)])

\* register without the lookup of lines 23-28: the row is inserted whether or
\* not the username is taken.
register_unchecked(us, username, password, salt) ==
    Returned(Append(us, [id |-> Len(us) + 1, username |-> username,
                         hashed_password |-> get_password_hash(password, salt),
                         refresh_token |-> NoToken, is_active |-> TRUE]),
             NoTask)

\* register storing a refresh token with the new row.
register_with_refresh_token(us, username, password, salt) ==
    IF SelectUser(us, username) # NoUser
    THEN HTTPException(400, "Username already registered", us)
    ELSE Returned(Append(us, [id |-> Len(us) + 1, username |-> username,
                              hashed_password |-> get_password_hash(password, salt),
                              refresh_token |-> create_refresh_token(username, 0),
                              is_active |-> TRUE]),
                  NoTask)

\* AuthService.register
register(us, username, password, salt) ==
    IF SelectUser(us, username) # NoUser
    THEN HTTPException(400, "Username already registered", us)
    ELSE Returned(Append(us, [id |-> Len(us) + 1, username |-> username,
                              hashed_password |-> get_password_hash(password, salt),
                              refresh_token |-> NoToken, is_active |-> TRUE]),
                  NoTask)

\* AuthService._create_tokens: the store after user.refresh_token = ...; commit
create_tokens(us, user, t) ==
    [us EXCEPT ![user.id].refresh_token = create_refresh_token(user.username, t)]

\* login that looks the user up without the filter on the username and
\* stores the tokens of the name of the form in the row it found.
login_first_row(us, username, password, t, db) ==
    LET user == get_user_by_username_first_row(us, <<username>>) IN
    IF user = NoUser \/ ~verify_password(password, user.hashed_password)
    THEN HTTPException(401, "Incorrect username or password", us)
    ELSE IF db # NoError THEN Raised(db, us)
    ELSE Returned([us EXCEPT ![user.id].refresh_token = create_refresh_token(username, t)],
                  NoTask)

\* login that hashes the verified password anew and stores the new hash
\* with the tokens.
login_rehash(us, username, password, t, db) ==
    LET user == SelectUser(us, username) IN
    IF user = NoUser \/ ~verify_password(password, user.hashed_password)
    THEN HTTPException(401, "Incorrect username or password", us)
    ELSE IF db # NoError THEN Raised(db, us)
    ELSE Returned([create_tokens(us, user, t) EXCEPT
                      ![user.id].hashed_password = get_password_hash(password, "s3")],
                  NoTask)

\* AuthService.login; db is the outcome of the commit in _create_tokens,
\* whose exception nothing in the service catches.
login(us, username, password, t, db) ==
    IF GetUserCallRaises(<<username>>) THEN Raised("TypeError", us)
    ELSE LET user == get_user_by_username(us, <<username>>) IN
         IF user = NoUser \/ ~verify_password(password, user.hashed_password)
         THEN HTTPException(401, "Incorrect username or password", us)
         ELSE IF db # NoError THEN Raised(db, us)
         ELSE Returned(create_tokens(us, user, t), NoTask)

\* AuthService.verify_refresh_token (no handler and no method calls it)
verify_refresh_token(us, token, t) ==
    IF ~jwt_decodes(token, t) THEN HTTPException(401, "Invalid refresh token", us)
    ELSE IF token.typ # "refresh" THEN HTTPException(401, "Invalid refresh token", us)
    ELSE IF token.sub = "" THEN HTTPException(401, "Invalid token payload", us)
    ELSE IF GetUserCallRaises(<<token.sub>>) THEN Raised("TypeError", us)
    ELSE LET user == get_user_by_username(us, <<token.sub>>) IN
         IF user = NoUser \/ user.refresh_token # token
         THEN HTTPException(401, "Invalid refresh token", us)
         ELSE Returned(us, NoTask)

\* auth_service.refresh_token(refresh_token), the call the refresh handler
\* makes: class AuthService has no attribute of that name, so evaluating
\* the attribute raises AttributeError before anything is read or written.
refresh_token_call(us, token, t) == Raised("AttributeError", us)

\* get_current_user behind a scheme with auto_error=True: the scheme itself
\* answers a request without bearer token, with its own detail.
get_current_user_auto_error(us, token, t) ==
    IF token = NoToken
    THEN [status |-> 401, detail |-> "Not authenticated", user |-> NoUser]
    ELSE IF ~jwt_decodes(token, t)
    THEN [status |-> 401, detail |-> "Could not validate credentials", user |-> NoUser]
    ELSE IF token.typ # "access"
    THEN [status |-> 401, detail |-> "Invalid token type", user |-> NoUser]
    ELSE IF token.sub = ""
    THEN [status |-> 401, detail |-> "Invalid token payload", user |-> NoUser]
    ELSE LET user == get_user_by_username(us, <<"session", token.sub>>) IN
         IF user = NoUser
         THEN [status |-> 401, detail |-> "User not found", user |-> NoUser]
         ELSE [status |-> 200, detail |-> "", user |-> user]

\* get_current_user that accepts an access token only while its user has a
\* refresh token stored.
get_current_user_session_bound(us, token, t) ==
    IF token = NoToken
    THEN [status |-> 401, detail |-> "Could not validate credentials", user |-> NoUser]
    ELSE IF ~jwt_decodes(token, t)
    THEN [status |-> 401, detail |-> "Could not validate credentials", user |-> NoUser]
    ELSE IF token.typ # "access"
    THEN [status |-> 401, detail |-> "Invalid token type", user |-> NoUser]
    ELSE IF token.sub = ""
    THEN [status |-> 401, detail |-> "Invalid token payload", user |-> NoUser]
    ELSE LET user == get_user_by_username(us, <<"session", token.sub>>) IN
         IF user = NoUser \/ user.refresh_token = NoToken
         THEN [status |-> 401, detail |-> "User not found", user |-> NoUser]
         ELSE [status |-> 200, detail |-> "", user |-> user]

\* AuthService.get_current_user: the user, or the HTTPException it raises
get_current_user(us, token, t) ==
    IF token = NoToken
    THEN [status |-> 401, detail |-> "Could not validate credentials", user |-> NoUser]
    ELSE IF ~jwt_decodes(token, t)
    THEN [status |-> 401, detail |-> "Could not validate credentials", user |-> NoUser]
    ELSE IF token.typ # "access"
    THEN [status |-> 401, detail |-> "Invalid token type", user |-> NoUser]
    ELSE IF token.sub = ""
    THEN [status |-> 401, detail |-> "Invalid token payload", user |-> NoUser]
    ELSE IF GetUserCallRaises(<<"session", token.sub>>)
    THEN [status |-> 500, detail |-> "Internal server error", user |-> NoUser]
    ELSE LET user == get_user_by_username(us, <<"session", token.sub>>) IN
         IF user = NoUser
         THEN [status |-> 401, detail |-> "User not found", user |-> NoUser]
         ELSE [status |-> 200, detail |-> "", user |-> user]

----------------------------------------------------------------------------
(* Handlers of app/api/auth.py *)

\* POST /auth/register
Register(username, password, salt) ==
    LET req == [Request("register") EXCEPT !.username = username, !.password = password]
        out == register(users, username, password, salt)
        rsp == Handled(req, out, "Internal server error while registering user")
    IN  /\ users' = out.store
        /\ last' = IF out.raised = ""
                   THEN [rsp EXCEPT !.status = 201, !.user = SelectUser(out.store, username)]
                   ELSE rsp
        /\ UNCHANGED <<tasks, now, ticks, calls>>

\* POST /auth/token
LoginRequest(username, password, db) ==
    LET req == [Request("login") EXCEPT !.username = username, !.password = password,
                                        !.db = db]
        out == login(users, username, password, now, db)
        rsp == Handled(req, out, "Internal server error during authentication")
    IN  /\ users' = out.store
        /\ last' = IF out.raised = ""
                   THEN [rsp EXCEPT !.access_token = create_access_token(username, now),
                                    !.refresh_token = create_refresh_token(username, now),
                                    !.token_type = "bearer"]
                   ELSE rsp
        /\ UNCHANGED <<tasks, now, ticks, calls>>

\* The same with the store answering.
Login(username, password) == LoginRequest(username, password, NoError)

\* POST /auth/refresh
RefreshResponse(token) ==
    Handled([Request("refresh") EXCEPT !.token = token],
            refresh_token_call(users, token, now),
            "Internal server error while refreshing token")

Refresh(token) ==
    /\ users' = refresh_token_call(users, token, now).store
    /\ last' = RefreshResponse(token)
    /\ UNCHANGED <<tasks, now, ticks, calls>>

\* The same while the store fails commits with db.
RefreshRequest(token, db) ==
    /\ users' = refresh_token_call(users, token, now).store
    /\ last' = [RefreshResponse(token) EXCEPT !.db = db]
    /\ UNCHANGED <<tasks, now, ticks, calls>>

\* The same handler with the request's arrival and the handler's run as two
\* steps, so that several refresh requests can be in flight at once.
\* sessions: the database sessions the request holds open.
Idle == [state |-> "idle", op |-> "", token |-> NoToken, username |-> "",
         password |-> "", salt |-> "", task_id |-> 0, status |-> 0, detail |-> "",
         sessions |-> 0]

\* async_session(): one more session of the request is open
session_open(n) == n + 1

\* await session.close(), also at the end of `async with async_session()`
session_close(n) == n - 1

\* get_db after its yield with the close after the commit instead of in a
\* finally: a request that ended with an exception keeps its session.
get_db_exit_without_finally(n, raised) == IF raised = "" THEN session_close(n) ELSE n

\* get_db after its yield (app/db/session.py): commit, or rollback on
\* SQLAlchemyError, and on every path finally: await session.close().
\* raised is the exception the request ended with, "" for none.
get_db_exit(n, raised) == session_close(n)

RefreshBegin(c, token) ==
    /\ calls[c].state = "idle"
    /\ calls' = [calls EXCEPT ![c] = [Idle EXCEPT !.state = "running", !.op = "refresh",
                                                  !.token = token,
                                                  !.sessions = session_open(@)]]
    /\ UNCHANGED <<users, tasks, now, ticks, last>>

RefreshFinish(c) ==
    /\ calls[c].state = "running" /\ calls[c].op = "refresh"
    /\ users' = refresh_token_call(users, calls[c].token, now).store
    /\ calls' = [calls EXCEPT ![c] =
                    [@ EXCEPT !.state  = "done",
                              !.status = RefreshResponse(calls[c].token).status,
                              !.detail = RefreshResponse(calls[c].token).detail,
                              !.sessions = get_db_exit(@, refresh_token_call(
                                               users, calls[c].token, now).raised)]]
    /\ UNCHANGED <<tasks, now, ticks, last>>

\* POST /auth/register as two steps, so that several register requests can
\* be in flight at once: first the SELECT of AuthService.register (lines
\* 23-28), which raises the 400 when it finds the username ...
RegisterBegin(c, username, password, salt) ==
    /\ calls[c].state = "idle"
    /\ calls' = [calls EXCEPT ![c] =
                    IF SelectUser(users, username) # NoUser
                    THEN [Idle EXCEPT !.state = "done", !.op = "register",
                                      !.username = username, !.password = password,
                                      !.salt = salt, !.status = 400,
                                      !.detail = "Username already registered",
                                      !.sessions = get_db_exit(session_open(@),
                                                               "HTTPException")]
                    ELSE [Idle EXCEPT !.state = "running", !.op = "register",
                                      !.username = username, !.password = password,
                                      !.salt = salt, !.sessions = session_open(@)]]
    /\ UNCHANGED <<users, tasks, now, ticks, last>>

\* ... then session.add(db_user); commit() (lines 29-34).  The INSERT
\* violates the unique index on users.username (app/db/models.py) when a row
\* with that name has been committed since the SELECT: commit() raises
\* IntegrityError and no row is inserted.
register_commit(us, username, password, salt) ==
    IF UserRows(us, username) # {} THEN Raised("IntegrityError", us)
    ELSE Returned(Append(us, [id |-> Len(us) + 1, username |-> username,
                              hashed_password |-> get_password_hash(password, salt),
                              refresh_token |-> NoToken, is_active |-> TRUE]),
                  NoTask)

RegisterFinish(c) ==
    LET call == calls[c]
        req  == [Request("register") EXCEPT !.username = call.username,
                                            !.password = call.password]
        out  == register_commit(users, call.username, call.password, call.salt)
        rsp  == Handled(req, out, "Internal server error while registering user")
    IN  /\ call.state = "running" /\ call.op = "register"
        /\ users' = out.store
        /\ calls' = [calls EXCEPT ![c] =
                        [@ EXCEPT !.state  = "done",
                                  !.status = IF out.raised = "" THEN 201 ELSE rsp.status,
                                  !.detail = rsp.detail,
                                  !.sessions = get_db_exit(@, out.raised)]]
        /\ UNCHANGED <<tasks, now, ticks, last>>

----------------------------------------------------------------------------
(* Request validation: app/schemas/task.py *)

\* TaskCreate.validate_datetime_to_do / TaskUpdate.validate_datetime_to_do:
\* the value is rejected when it is earlier than the clock read by the validator.
\* A validator that lets every date through.
validate_datetime_to_do_skipped(dt, t) == TRUE

\* The validator of the schemas.
validate_datetime_to_do(dt, t) == ~(dt < t)

\* An explicit null is returned as it is (if v is None: return None).
BodyValid(body, t) ==
    ("datetime_to_do" \in body.fields /\ "datetime_to_do" \notin body.nulls)
        => validate_datetime_to_do(body.datetime_to_do, t)

----------------------------------------------------------------------------
(* TaskService: app/services/task_service.py *)

\* create_task with the owner read from the request body when the body
\* carries a user_id.
create_task_owner_from_body(ts, body, user_id, t, db) ==
    LET row == [id |-> Len(ts) + 1,
                user_id |-> IF "user_id" \in body.fields THEN body.user_id ELSE user_id,
                datetime_to_do |-> body.datetime_to_do, task_info |-> body.task_info,
                is_completed |-> FALSE, created_at |-> t, updated_at |-> t, nulls |-> {}]
    IN  IF db # NoError
        THEN RolledBack("Failed to create task: " \o ExceptionText(db), ts)
        ELSE Returned(Append(ts, row), row)

\* create_task that commits a second time when the first commit fails; the
\* second commit goes through.
create_task_retry(ts, body, user_id, t, db) ==
    LET row == [id |-> Len(ts) + 1, user_id |-> user_id,
                datetime_to_do |-> body.datetime_to_do, task_info |-> body.task_info,
                is_completed |-> FALSE, created_at |-> t, updated_at |-> t, nulls |-> {}]
    IN  Returned(Append(ts, row), row)

\* TaskService.create_task; db is the outcome of session.commit().  The row
\* is TaskModel(**task.model_dump(), user_id=user_id): the declared fields
\* of TaskCreate and the user_id argument; is_completed, created_at and
\* updated_at take the column defaults.
create_task(ts, body, user_id, t, db) ==
    LET row == [id |-> Len(ts) + 1, user_id |-> user_id,
                datetime_to_do |-> body.datetime_to_do, task_info |-> body.task_info,
                is_completed |-> FALSE, created_at |-> t, updated_at |-> t, nulls |-> {}]
    IN  IF db # NoError
        THEN RolledBack("Failed to create task: " \o ExceptionText(db), ts)
        ELSE Returned(Append(ts, row), row)

\* read_task with the owner made part of the lookup: another user's task
\* is reported as missing.
read_task_owner_filtered(ts, task_id, user_id) ==
    LET task == SelectTask(ts, task_id) IN
    IF task = NoTask \/ task.user_id # user_id
    THEN HTTPException(404, "Task not found", ts)
    ELSE Returned(ts, task)

\* TaskService.read_task
read_task(ts, task_id, user_id) ==
    LET task == SelectTask(ts, task_id) IN
    IF task = NoTask THEN HTTPException(404, "Task not found", ts)
    ELSE IF task.user_id # user_id
    THEN HTTPException(403, "You are not allowed to read this task", ts)
    ELSE Returned(ts, task)

\* The columns of tasks declared nullable=False that a patch can assign.
NotNullColumns == {"datetime_to_do", "task_info"}

\* The fields TaskUpdate declares (app/schemas/task.py).
TaskUpdateFields == {"datetime_to_do", "task_info", "is_completed"}

\* TaskUpdate parsed with extra keys kept (extra="allow").
model_dump_extra_allow(body) == body

\* task_update.model_dump(exclude_unset=True): the declared fields that the
\* request set; keys the schema does not declare were dropped on parsing.
model_dump_exclude_unset(body) ==
    [body EXCEPT !.fields = @ \cap TaskUpdateFields, !.nulls = @ \cap TaskUpdateFields]

\* The setattr loop without "is_completed".
ApplyPatch_without_is_completed(task, data) ==
    [task EXCEPT
        !.datetime_to_do = IF "datetime_to_do" \in data.fields
                           THEN data.datetime_to_do ELSE @,
        !.task_info      = IF "task_info" \in data.fields THEN data.task_info ELSE @,
        !.user_id        = IF "user_id" \in data.fields THEN data.user_id ELSE @,
        !.nulls          = (@ \ (data.fields \ {"is_completed"})) \cup (data.nulls \ {"is_completed"})]

\* for key, value in update_data.items(): setattr(task, key, value)
ApplyPatch(task, data) ==
    [task EXCEPT
        !.datetime_to_do = IF "datetime_to_do" \in data.fields
                           THEN data.datetime_to_do ELSE @,
        !.task_info      = IF "task_info" \in data.fields THEN data.task_info ELSE @,
        !.is_completed   = IF "is_completed" \in data.fields THEN data.is_completed ELSE @,
        !.user_id        = IF "user_id" \in data.fields THEN data.user_id ELSE @,
        !.nulls          = (@ \ data.fields) \cup data.nulls]

\* update_task that assigns and commits the patch before it checks the owner.
update_task_write_before_check(ts, task_id, body, user_id, t, db) ==
    LET task == SelectTask(ts, task_id) IN
    IF task = NoTask THEN HTTPException(404, "Task not found", ts)
    ELSE LET patched == ApplyPatch(task, model_dump_exclude_unset(body))
             row == IF patched = task THEN task ELSE [patched EXCEPT !.updated_at = t]
         IN  IF db # NoError
             THEN RolledBack("Internal server error: " \o ExceptionText(db), ts)
             ELSE IF row.nulls \cap NotNullColumns # {}
             THEN RolledBack("Internal server error: " \o ExceptionText("IntegrityError"), ts)
             ELSE IF task.user_id # user_id
             THEN HTTPException(403, "You are not allowed to update this task",
                                [ts EXCEPT ![task_id] = row])
             ELSE Returned([ts EXCEPT ![task_id] = row], row)

\* update_task that answers 500 for a failed commit without rolling back:
\* the flushed row stays.
update_task_without_rollback(ts, task_id, body, user_id, t, db) ==
    LET task == SelectTask(ts, task_id) IN
    IF task = NoTask THEN HTTPException(404, "Task not found", ts)
    ELSE IF task.user_id # user_id
    THEN HTTPException(403, "You are not allowed to update this task", ts)
    ELSE LET patched == ApplyPatch(task, model_dump_exclude_unset(body))
             row == IF patched = task THEN task ELSE [patched EXCEPT !.updated_at = t]
         IN  IF row.nulls \cap NotNullColumns # {}
             THEN RolledBack("Internal server error: " \o ExceptionText("IntegrityError"), ts)
             ELSE IF db # NoError
             THEN HTTPException(500, "Internal server error: " \o ExceptionText(db),
                                [ts EXCEPT ![task_id] = row])
             ELSE Returned([ts EXCEPT ![task_id] = row], row)

\* TaskService.update_task; db is the outcome of session.commit().  The
\* UPDATE that commit() emits for a changed row also sets updated_at
\* (onupdate, app/db/models.py); for an unchanged row no UPDATE is emitted.
\* An UPDATE that sets a nullable=False column to NULL raises IntegrityError.
update_task(ts, task_id, body, user_id, t, db) ==
    LET task == SelectTask(ts, task_id) IN
    IF task = NoTask THEN HTTPException(404, "Task not found", ts)
    ELSE IF task.user_id # user_id
    THEN HTTPException(403, "You are not allowed to update this task", ts)
    ELSE LET patched == ApplyPatch(task, model_dump_exclude_unset(body))
             row == IF patched = task THEN task ELSE [patched EXCEPT !.updated_at = t]
         IN  IF db # NoError
             THEN RolledBack("Internal server error: " \o ExceptionText(db), ts)
             ELSE IF row.nulls \cap NotNullColumns # {}
             THEN RolledBack("Internal server error: " \o ExceptionText("IntegrityError"), ts)
             ELSE Returned([ts EXCEPT ![task_id] = row], row)

\* task_service.delete_task(task_id, current_user.id), the call the delete
\* handler makes: class TaskService defines create_task, read_task,
\* update_task and list_tasks only, so the attribute lookup raises
\* AttributeError before anything is read or written.
delete_task_call(ts, task_id, user_id) == Raised("AttributeError", ts)

\* list_tasks(user_id=..., skip: int = 0, limit: int = 10): the defaults
DefaultSkip  == 0
DefaultLimit == 10

\* user_id: Optional[int] = None
NoUserId == NoUser.id

\* The ids of the rows the query of list_tasks selects.
ListedIds(ts, user_id) ==
    {i \in 1..Len(ts) : user_id = NoUserId \/ ts[i].user_id = user_id}

\* The query has no ORDER BY: the store may yield the selected rows in any
\* order.  A scan order is a sequence that holds each selected id once.
ScanOrders(ids) ==
    {o \in [1..Cardinality(ids) -> ids] : \A i, j \in 1..Cardinality(ids) : o[i] = o[j] => i = j}

\* The scan order by ascending id: the k-th id is the one with k - 1 smaller ids.
Ascending(ids) ==
    [k \in 1..Cardinality(ids) |->
        CHOOSE x \in ids : Cardinality({y \in ids : y < x}) = k - 1]

\* query.offset(skip).limit(limit) over the rows in the order they are yielded
OffsetLimit(rows, skip, limit) ==
    SubSeq(rows, skip + 1, IF skip + limit < Len(rows) THEN skip + limit ELSE Len(rows))

\* list_tasks with `if user_id is not None: query = query.filter(...)` left
\* out: every user's rows are selected.
list_tasks_unfiltered(ts, order, user_id, skip, limit) ==
    LET all == Ascending(ListedIds(ts, NoUserId))
    IN  Returned(ts, OffsetLimit([i \in 1..Len(all) |-> ts[all[i]]], skip, limit))

\* TaskService.list_tasks; `order` is the order in which the store yields
\* the selected rows.  The value returned is a list of rows.
list_tasks(ts, order, user_id, skip, limit) ==
    Returned(ts, OffsetLimit([i \in 1..Len(order) |-> ts[order[i]]], skip, limit))

----------------------------------------------------------------------------
(* Handlers of app/api/tasks.py.  Depends(AuthService.get_current_user) is *)
(* resolved first; its HTTPException is the response.                      *)

Unauthorized(req, auth) == Response(req, auth.status, auth.detail)

\* POST /tasks/create
CreateTaskRequest(token, body, db) ==
    LET req  == [Request("create") EXCEPT !.token = token, !.body = body, !.db = db]
        auth == get_current_user(users, token, now)
        out  == create_task(tasks, req.body, auth.user.id, now, db)
    IN  /\ IF auth.status # 200
           THEN /\ last' = Unauthorized(req, auth)
                /\ tasks' = tasks
           ELSE IF ~BodyValid(req.body, now)
           THEN /\ last' = Response(req, 422, "Value error, Date validation error: Task execution date must be in the future")
                /\ tasks' = tasks
           ELSE /\ last' = [Handled(req, out, "Internal server error while creating task")
                               EXCEPT !.status = IF out.raised = "" THEN 201 ELSE @,
                                      !.task = out.row, !.user = auth.user]
                /\ tasks' = out.store
        /\ UNCHANGED <<users, now, ticks, calls>>

\* The same with the body of a well-behaved client and the store answering.
CreateTask(token, dt, info) ==
    CreateTaskRequest(token, Body({"datetime_to_do", "task_info"}, dt, info, FALSE), NoError)

\* GET /tasks/{task_id}
ReadTask(token, task_id) ==
    LET req  == [Request("read") EXCEPT !.token = token, !.task_id = task_id]
        auth == get_current_user(users, token, now)
        out  == read_task(tasks, task_id, auth.user.id)
    IN  /\ last' = IF auth.status # 200 THEN Unauthorized(req, auth)
                   ELSE [Serialized(req,
                                    [Handled(req, out, "Internal server error while retrieving task")
                                        EXCEPT !.task = out.row],
                                    <<out.row>>)
                            EXCEPT !.user = auth.user]
        /\ UNCHANGED <<users, tasks, now, ticks, calls>>

\* PUT /tasks/{task_id}
UpdateTaskRequest(token, task_id, body, db) ==
    LET req  == [Request("update") EXCEPT !.token = token, !.task_id = task_id,
                                          !.body = body, !.db = db]
        auth == get_current_user(users, token, now)
        out  == update_task(tasks, task_id, body, auth.user.id, now, db)
    IN  /\ IF auth.status # 200
           THEN /\ last' = Unauthorized(req, auth)
                /\ tasks' = tasks
           ELSE IF ~BodyValid(body, now)
           THEN /\ last' = Response(req, 422, "Value error, Task execution date must be in the future")
                /\ tasks' = tasks
           ELSE /\ last' = [Serialized(req,
                                       [Handled(req, out, "Internal server error while updating task")
                                           EXCEPT !.task = out.row],
                                       <<out.row>>)
                               EXCEPT !.user = auth.user]
                /\ tasks' = out.store
        /\ UNCHANGED <<users, now, ticks, calls>>

\* The same with the store answering.
UpdateTask(token, task_id, body) == UpdateTaskRequest(token, task_id, body, NoError)

\* DELETE /tasks/{task_id}
DeleteTask(token, task_id) ==
    LET req  == [Request("delete") EXCEPT !.token = token, !.task_id = task_id]
        auth == get_current_user(users, token, now)
        out  == delete_task_call(tasks, task_id, auth.user.id)
    IN  /\ IF auth.status # 200
           THEN /\ last' = Unauthorized(req, auth)
                /\ tasks' = tasks
           ELSE /\ last' = [(IF out.raised = ""
                             THEN Response(req, 204, "")
                             ELSE Handled(req, out, "Internal server error while deleting task"))
                               EXCEPT !.user = auth.user]
                /\ tasks' = out.store
        /\ UNCHANGED <<users, now, ticks, calls>>

\* GET /tasks/
ListTasks(token, order) ==
    LET req  == [Request("list") EXCEPT !.token = token]
        auth == get_current_user(users, token, now)
        out  == list_tasks(tasks, order, auth.user.id, DefaultSkip, DefaultLimit)
    IN  /\ IF auth.status # 200
           THEN order = <<>>
           ELSE order \in ScanOrders(ListedIds(tasks, auth.user.id))
        /\ last' = IF auth.status # 200 THEN Unauthorized(req, auth)
                   ELSE [Serialized(req,
                                    [Handled(req, out, "Internal server error while retrieving task list")
                                        EXCEPT !.tasks = out.row],
                                    out.row)
                            EXCEPT !.user = auth.user]
        /\ UNCHANGED <<users, tasks, now, ticks, calls>>

----------------------------------------------------------------------------
(* The clock *)

Tick(d) ==
    /\ ticks < MaxTicks
    /\ now' = now + d
    /\ ticks' = ticks + 1
    /\ UNCHANGED <<users, tasks, last, calls>>

----------------------------------------------------------------------------
(* Tokens a client may present: absent, garbage, and JWTs for a known name *)
(* issued at start-up time or just now, of either type; one signed with    *)
(* another key, one without a subject.                                      *)

TTL(typ) == IF typ = "access" THEN AccessTTL ELSE RefreshTTL

TokensAt(t) ==
    {NoToken, Malformed}
    \cup {jwt_encode(sub, typ, t0 + TTL(typ), SECRET_KEY) :
            sub \in Usernames, typ \in {"access", "refresh"}, t0 \in {0, t}}
    \cup {jwt_encode("alice", typ, t + TTL(typ), OTHER_KEY) : typ \in {"access", "refresh"}}
    \cup {jwt_encode("", typ, t + TTL(typ), SECRET_KEY) : typ \in {"access", "refresh"}}

PresentedTokens == TokensAt(now)

----------------------------------------------------------------------------
(* Specification of the authentication endpoints *)

NoRequest == [Response(Request("none"), 0, "") EXCEPT !.at = 0]

Init ==
    /\ users = <<>>
    /\ tasks = <<>>
    /\ now = 0
    /\ ticks = 0
    /\ last = NoRequest
    /\ calls = [c \in Clients |-> Idle]

Next ==
    \/ \E u \in Usernames, p \in Passwords, s \in Salts : Register(u, p, s)
    \/ \E u \in Usernames, p \in Passwords : Login(u, p)
    \/ \E tok \in PresentedTokens : Refresh(tok)
    \/ \E d \in TickSteps : Tick(d)

Spec == Init /\ [][Next]_vars

----------------------------------------------------------------------------
(* Specification of the task endpoints: alice and bob have registered, and *)
(* each request carries no bearer token or a fresh access token.           *)

Registered ==
    <<[id |-> 1, username |-> "alice",
       hashed_password |-> get_password_hash("StrongPass1!", "s1"),
       refresh_token |-> NoToken, is_active |-> TRUE],
      [id |-> 2, username |-> "bob",
       hashed_password |-> get_password_hash("OtherPass2?", "s2"),
       refresh_token |-> NoToken, is_active |-> TRUE]>>

InitTasks ==
    /\ users = Registered
    /\ tasks = <<>>
    /\ now = 0
    /\ ticks = 0
    /\ last = NoRequest
    /\ calls = [c \in Clients |-> Idle]

BearerTokens == {NoToken} \cup {create_access_token(u, now) : u \in Usernames}

TaskIds == 1..(MaxTasks + 1)

Patches ==
    {NoBody}
    \cup {Body({"task_info"}, 0, i, FALSE) : i \in Infos}
    \cup {Body({"is_completed"}, 0, "", TRUE)}

NextTasks ==
    \/ \E tok \in BearerTokens, i \in Infos :
          /\ Len(tasks) < MaxTasks \/ get_current_user(users, tok, now).status # 200
          /\ CreateTask(tok, now + AccessTTL, i)
    \/ \E tok \in BearerTokens, id \in TaskIds : ReadTask(tok, id)
    \/ \E tok \in BearerTokens, id \in TaskIds, b \in Patches : UpdateTask(tok, id, b)
    \/ \E tok \in BearerTokens, id \in TaskIds : DeleteTask(tok, id)
    \/ \E tok \in BearerTokens :
          \E order \in ScanOrders(ListedIds(tasks, get_current_user(users, tok, now).user.id))
                      \cup {<<>>} : ListTasks(tok, order)

SpecTasks == InitTasks /\ [][NextTasks]_vars

----------------------------------------------------------------------------
(* Specification of concurrent refresh requests: two clients, each with at *)
(* most one refresh request in flight.                                     *)

NextRefresh ==
    \/ \E u \in Usernames, p \in Passwords, s \in Salts : Register(u, p, s)
    \/ \E u \in Usernames, p \in Passwords : Login(u, p)
    \/ \E c \in Clients, u \in Usernames :
          RefreshBegin(c, create_refresh_token(u, now))
    \/ \E c \in Clients : RefreshFinish(c)

SpecRefresh == Init /\ [][NextRefresh]_vars

----------------------------------------------------------------------------
(* Specification of listing: alice and bob have registered; alice creates  *)
(* up to MaxListed tasks, more than one page of list_tasks holds, and both *)
(* list their tasks, the store yielding the rows by ascending id.          *)

NextList ==
    \/ \E i \in Infos :
          /\ Len(tasks) < MaxListed
          /\ CreateTask(create_access_token("alice", now), now + AccessTTL, i)
    \/ \E u \in Usernames :
          ListTasks(create_access_token(u, now),
                    Ascending(ListedIds(tasks, SelectUser(users, u).id)))

SpecList == InitTasks /\ [][NextList]_vars

----------------------------------------------------------------------------
(* Specification of task creation: alice and bob have registered; a create *)
(* request carries any bearer token, a date before, at or after the clock, *)
(* possibly a user_id key, and its commit goes through or fails.           *)

CreateBodies ==
    LET plain == {Body({"datetime_to_do", "task_info"}, dt, "Buy milk", FALSE) :
                     dt \in {now - 1, now, now + AccessTTL}}
    IN  plain \cup {WithUserId(b, SelectUser(users, u).id) : b \in plain, u \in Usernames}

NextCreate ==
    \E tok \in BearerTokens, b \in CreateBodies, db \in {NoError} \cup StoreErrors :
       /\ \/ Len(tasks) < MaxTasks
          \/ get_current_user(users, tok, now).status # 200
          \/ ~BodyValid(b, now)
          \/ db # NoError
       /\ CreateTaskRequest(tok, b, db)

SpecCreate == InitTasks /\ [][NextCreate]_vars

----------------------------------------------------------------------------
(* Specification of task updates: alice and bob have registered and alice  *)
(* has created task 1; update requests carry an access token, the id of    *)
(* the task or of none, and a patch: empty, partial, with a date before or *)
(* after the clock, possibly with a user_id key; the commit goes through   *)
(* or fails; the clock advances by the lifetime of an access token.        *)

InitEdit ==
    /\ users = Registered
    /\ tasks = create_task(<<>>, Body({"datetime_to_do", "task_info"}, AccessTTL,
                                      "Buy milk", FALSE),
                           Registered[1].id, 0, NoError).store
    /\ now = 0
    /\ ticks = 0
    /\ last = NoRequest
    /\ calls = [c \in Clients |-> Idle]

EditPatches ==
    LET plain == {NoBody,
                  Body({"task_info"}, 0, "Walk dog", FALSE),
                  Body({"task_info"}, 0, "Buy milk", FALSE),
                  Body({"is_completed"}, 0, "", TRUE),
                  Body({"datetime_to_do"}, now - 1, "", FALSE),
                  Body({"datetime_to_do"}, now + AccessTTL, "", FALSE)}
    IN  plain \cup {WithUserId(b, Registered[2].id) :
                       b \in {NoBody, Body({"task_info"}, 0, "Walk dog", FALSE)}}

NextEdit ==
    \/ \E tok \in BearerTokens, id \in 1..(Len(tasks) + 1), b \in EditPatches,
          db \in {NoError} \cup StoreErrors : UpdateTaskRequest(tok, id, b, db)
    \/ \E tok \in BearerTokens, id \in 1..(Len(tasks) + 1) : DeleteTask(tok, id)
    \/ Tick(AccessTTL)

SpecEdit == InitEdit /\ [][NextEdit]_vars

----------------------------------------------------------------------------
(* Specification of updates with explicit nulls: alice has created task 1; *)
(* a patch sets one declared field to null, or sets task_info or           *)
(* is_completed to a value; the task is read and listed in between.        *)

NullPatches ==
    {WithNull(NoBody, f) : f \in TaskUpdateFields}
    \cup {Body({"task_info"}, 0, "Walk dog", FALSE),
          Body({"is_completed"}, 0, "", TRUE)}

NextNulls ==
    \/ \E tok \in BearerTokens, id \in 1..(Len(tasks) + 1), b \in NullPatches :
          UpdateTask(tok, id, b)
    \/ \E tok \in BearerTokens, id \in 1..(Len(tasks) + 1) : ReadTask(tok, id)
    \/ \E tok \in BearerTokens :
          \E order \in ScanOrders(ListedIds(tasks, get_current_user(users, tok, now).user.id))
                      \cup {<<>>} : ListTasks(tok, order)

SpecNulls == InitEdit /\ [][NextNulls]_vars

----------------------------------------------------------------------------
(* Specification of requests in flight and their sessions: two clients,    *)
(* each sending one register, refresh or read request; a request that has  *)
(* begun is finished by the event loop, whatever the other client does.    *)

\* GET /tasks/{task_id} as two steps.  First the dependencies: get_db opens
\* the session of the request and get_current_user, once the token is
\* decoded, opens a session of its own in `async with` and leaves it closed,
\* also when it raises "User not found"; a 401 ends the request.
ReadBegin(c, token, task_id) ==
    LET auth   == get_current_user(users, token, now)
        opened == session_open(Idle.sessions)
        after  == IF auth.status = 200 \/ auth.detail = "User not found"
                  THEN session_close(session_open(opened))
                  ELSE opened
    IN  /\ calls[c].state = "idle"
        /\ calls' = [calls EXCEPT ![c] =
                        IF auth.status # 200
                        THEN [Idle EXCEPT !.state = "done", !.op = "read", !.token = token,
                                          !.task_id = task_id, !.status = auth.status,
                                          !.detail = auth.detail,
                                          !.sessions = get_db_exit(after, "HTTPException")]
                        ELSE [Idle EXCEPT !.state = "running", !.op = "read",
                                          !.token = token, !.task_id = task_id,
                                          !.sessions = after]]
        /\ UNCHANGED <<users, tasks, now, ticks, last>>

\* ... then the handler and read_task, and the exit of get_db.
ReadFinish(c) ==
    LET call == calls[c]
        req  == [Request("read") EXCEPT !.token = call.token, !.task_id = call.task_id]
        out  == read_task(tasks, call.task_id, SelectUser(users, call.token.sub).id)
        rsp  == Serialized(req, Handled(req, out, "Internal server error while retrieving task"),
                           <<out.row>>)
    IN  /\ call.state = "running" /\ call.op = "read"
        /\ calls' = [calls EXCEPT ![c] =
                        [@ EXCEPT !.state = "done", !.status = rsp.status,
                                  !.detail = rsp.detail,
                                  !.sessions = get_db_exit(@, out.raised)]]
        /\ UNCHANGED <<users, tasks, now, ticks, last>>

\* The handler of the request of client c runs to its response.
Finish(c) == RegisterFinish(c) \/ RefreshFinish(c) \/ ReadFinish(c)

NextSessions ==
    \/ \E c \in Clients, u \in Usernames : RegisterBegin(c, u, "StrongPass1!", "s1")
    \/ \E c \in Clients, u \in Usernames : RefreshBegin(c, create_refresh_token(u, now))
    \/ \E c \in Clients, tok \in BearerTokens : ReadBegin(c, tok, 1)
    \/ \E c \in Clients : RegisterFinish(c)
    \/ \E c \in Clients : RefreshFinish(c)
    \/ \E c \in Clients : ReadFinish(c)

\* The event loop resumes every coroutine that is ready to run.
SpecSessions ==
    Init /\ [][NextSessions]_vars /\ \A c \in Clients : WF_vars(Finish(c))

----------------------------------------------------------------------------
(* Specification of access tokens over time: alice and bob have           *)
(* registered and alice has created task 1; logins and refreshes arrive    *)
(* between reads that carry an access token issued at start-up or just     *)
(* now, while the clock advances by one minute or by the lifetime of an    *)
(* access token.                                                           *)

IssuedTokens(typ) ==
    {jwt_encode(u, typ, t0 + TTL(typ), SECRET_KEY) : u \in Usernames, t0 \in {0, now}}

NextRotate ==
    \/ \E u \in Usernames, p \in Passwords : Login(u, p)
    \/ \E tok \in IssuedTokens("refresh") : Refresh(tok)
    \/ \E tok \in IssuedTokens("access"), id \in 1..(Len(tasks) + 1) : ReadTask(tok, id)
    \/ \E d \in {1, AccessTTL} : Tick(d)

SpecRotate == InitEdit /\ [][NextRotate]_vars

----------------------------------------------------------------------------
(* Specification of failing commits: alice and bob have registered and     *)
(* alice has created task 1; update, login and refresh requests arrive     *)
(* while the store commits or fails the commit.                            *)

CommitPatches ==
    {NoBody, Body({"task_info"}, 0, "Walk dog", FALSE), Body({"is_completed"}, 0, "", TRUE)}

NextCommit ==
    \/ \E tok \in BearerTokens, id \in 1..(Len(tasks) + 1), b \in CommitPatches,
          db \in {NoError} \cup StoreErrors : UpdateTaskRequest(tok, id, b, db)
    \/ \E u \in Usernames, p \in Passwords, db \in {NoError} \cup StoreErrors :
          LoginRequest(u, p, db)
    \/ \E u \in Usernames, db \in {NoError} \cup StoreErrors :
          RefreshRequest(create_refresh_token(u, now), db)

SpecCommit == InitEdit /\ [][NextCommit]_vars

----------------------------------------------------------------------------
(* Specification of the authentication of protected routes: the bearer     *)
(* token of a request is any of the presented tokens or a token signed     *)
(* with another key, whatever its subject, type and expiry.                *)

ForgedTokens ==
    {jwt_encode(sub, typ, exp, OTHER_KEY) :
        sub \in Usernames \cup {""}, typ \in {"access", "refresh"},
        exp \in {now - 1, now + AccessTTL}}

AuthTokens == PresentedTokens \cup ForgedTokens

NextAuth ==
    \/ \E u \in Usernames : Register(u, "StrongPass1!", "s1")
    \/ \E d \in TickSteps : Tick(d)
    \/ \E tok \in AuthTokens : Refresh(tok)
    \/ \E tok \in AuthTokens :
          /\ get_current_user(users, tok, now).status # 200
          /\ CreateTask(tok, now + AccessTTL, "Buy milk")
    \/ \E tok \in AuthTokens : ReadTask(tok, 1)
    \/ \E tok \in AuthTokens : UpdateTask(tok, 1, NoBody)
    \/ \E tok \in AuthTokens : DeleteTask(tok, 1)
    \/ \E tok \in AuthTokens : ListTasks(tok, <<>>)

SpecAuth == Init /\ [][NextAuth]_vars

----------------------------------------------------------------------------
(* Specification of concurrent register requests: two clients, each with   *)
(* at most one register request in flight.                                 *)

NextRegister ==
    \/ \E c \in Clients, u \in Usernames, p \in Passwords, s \in Salts :
          RegisterBegin(c, u, p, s)
    \/ \E c \in Clients : RegisterFinish(c)

SpecRegister == Init /\ [][NextRegister]_vars

----------------------------------------------------------------------------
(* Properties *)

CredentialsValid(us, username, password) ==
    /\ SelectUser(us, username) # NoUser
    /\ verify_password(password, SelectUser(us, username).hashed_password)

\* The step handles a request of kind op (the clock stands still while it does).
RequestStep(op) == last'.op = op /\ last'.at = now /\ now' = now

\* `last` is a login that carried a registered user's correct password, and
\* the refresh token such a login issues (create_refresh_token at that
\* instant) has not expired.
ValidLoginHandled ==
    /\ last.op = "login"
    /\ CredentialsValid(users, last.username, last.password)
    /\ jwt_decodes(create_refresh_token(last.username, last.at), now)

LoginRefreshToken == create_refresh_token(last.username, last.at)

\* The refresh tokens naming `username` that a refresh call would accept now.
AcceptedRefreshTokens(us, t, username, extra) ==
    {tok \in TokensAt(t) \cup extra :
        /\ tok.sub = username
        /\ refresh_token_call(us, tok, t).raised = ""}

\* A presented refresh token that refresh must reject.
RefreshTokenBad(us, tok, t) ==
    \/ ~jwt_decodes(tok, t)
    \/ tok.typ # "refresh"
    \/ SelectUser(us, tok.sub) = NoUser
    \/ SelectUser(us, tok.sub).refresh_token # tok

\* C1: the refresh token of a valid login is single-use: the first refresh
\* call presenting it answers 200, and a refresh call presenting a token that
\* a refresh has just accepted answers 401.
C1_RefreshTokenSingleUse ==
    [][ /\ (/\ ValidLoginHandled
            /\ RequestStep("refresh")
            /\ last'.token = LoginRefreshToken) => last'.status = 200
        /\ (/\ last.op = "refresh" /\ last.status = 200
            /\ RequestStep("refresh")
            /\ last'.token = last.token) => last'.status = 401 ]_vars

\* C2: after a valid login (and after a successful refresh) exactly one refresh
\* token of that user is accepted by refresh: the one issued most recently.
C2_OnlyLatestAccepted ==
    /\ ValidLoginHandled =>
          AcceptedRefreshTokens(users, now, last.username, {LoginRefreshToken})
             = {LoginRefreshToken}
    /\ (last.op = "refresh" /\ last.status = 200
          /\ jwt_decodes(last.refresh_token, now)) =>
          AcceptedRefreshTokens(users, now, last.token.sub, {last.refresh_token})
             = {last.refresh_token}

\* C3: when both clients' refresh calls have presented the refresh token of
\* the same valid login, exactly one of them has answered 200 and the other
\* has answered 401.
C3_OneRotationWins ==
    (/\ ValidLoginHandled
     /\ \A c \in Clients : calls[c].state = "done" /\ calls[c].token = LoginRefreshToken)
    => \E w \in Clients :
          /\ calls[w].status = 200
          /\ \A c \in Clients \ {w} : calls[c].status = 401

\* C4: get, update and delete of an existing task by a caller who is not its
\* owner answer 403, return no task and leave the stored tasks unchanged.
C4_NonOwnerForbidden ==
    [][ (/\ last'.op \in {"read", "update", "delete"}
         /\ get_current_user(users, last'.token, now).status = 200
         /\ SelectTask(tasks, last'.task_id) # NoTask
         /\ SelectTask(tasks, last'.task_id).user_id
               # get_current_user(users, last'.token, now).user.id)
        => (/\ last'.status = 403
            /\ last'.task = NoTask
            /\ tasks' = tasks) ]_vars

\* C5: get answers 404 exactly when no task has the id, 403 exactly when the
\* task exists and its owner is not the caller, and otherwise 200 with the task.
C5_ReadExistenceBeforeOwnership ==
    (last.op = "read" /\ get_current_user(users, last.token, last.at).status = 200) =>
        LET caller == get_current_user(users, last.token, last.at).user
            task   == SelectTask(tasks, last.task_id)
        IN  /\ last.status \in {200, 403, 404}
            /\ last.status = 404 <=> task = NoTask
            /\ last.status = 403 <=> (task # NoTask /\ task.user_id # caller.id)
            /\ last.status = 200 => last.task = task
            /\ last.status # 200 => last.task = NoTask

\* C5 witness: a get of an existing task by a registered caller who does not
\* own it has been answered 403.
C5_Witness ==
    /\ last.op = "read" /\ last.status = 403
    /\ get_current_user(users, last.token, last.at).status = 200
    /\ SelectTask(tasks, last.task_id) # NoTask

\* C6: the refresh presenting the refresh token of a valid login returns a
\* new access token and a new refresh token with token_type "bearer"; the
\* returned refresh token differs from the presented one and is the one stored.
C6_RefreshReturnsNewPair ==
    [][ (/\ ValidLoginHandled
         /\ RequestStep("refresh")
         /\ last'.token = LoginRefreshToken)
        => (/\ last'.status = 200
            /\ last'.access_token.kind = "jwt" /\ last'.access_token.typ = "access"
            /\ last'.refresh_token.kind = "jwt" /\ last'.refresh_token.typ = "refresh"
            /\ last'.token_type = "bearer"
            /\ last'.refresh_token # last'.token
            /\ SelectUser(users', last'.token.sub).refresh_token = last'.refresh_token) ]_vars

\* C7: a refresh presenting a token that is malformed, badly signed, expired,
\* not of type refresh, of an unknown subject or different from the subject's
\* stored refresh_token answers 401 and leaves the users table unchanged.
C7_RefreshRejectsWith401 ==
    [][ (RequestStep("refresh") /\ RefreshTokenBad(users, last'.token, now))
        => (last'.status = 401 /\ users' = users) ]_vars

\* C8: a login with a registered username and its correct password answers
\* 200 with two distinct non-empty tokens and token_type "bearer", and the
\* user's stored refresh_token is the returned refresh token.
C8_LoginSucceeds ==
    (last.op = "login" /\ CredentialsValid(users, last.username, last.password)) =>
        /\ last.status = 200
        /\ last.access_token.kind = "jwt"
        /\ last.refresh_token.kind = "jwt"
        /\ last.access_token # last.refresh_token
        /\ last.token_type = "bearer"
        /\ SelectUser(users, last.username).refresh_token = last.refresh_token

\* C9: a login with an unknown username or a wrong password answers 401 with
\* the one message "Incorrect username or password" and changes nothing stored.
C9_LoginFailureUniform ==
    [][ (/\ RequestStep("login")
         /\ ~CredentialsValid(users, last'.username, last'.password))
        => (/\ last'.status = 401
            /\ last'.detail = "Incorrect username or password"
            /\ users' = users /\ tasks' = tasks) ]_vars

UsernamesUnique ==
    \A i, j \in 1..Len(users) : users[i].username = users[j].username => i = j

\* C11: no two rows of the users table hold the same username, and a register
\* request that does not create its user, a loser of a race for the username
\* included, is answered 400 "Username already registered".
C11_UniqueUsernameDuplicateUser ==
    /\ UsernamesUnique
    /\ \A c \in Clients :
          (calls[c].state = "done" /\ calls[c].op = "register" /\ calls[c].status # 201)
          => (/\ calls[c].status = 400
              /\ calls[c].detail = "Username already registered")

\* The routes that depend on AuthService.get_current_user (app/api/tasks.py).
ProtectedOps == {"create", "list", "read", "update", "delete"}

\* The step handles a request to a protected route.
ProtectedStep == \E op \in ProtectedOps : RequestStep(op)

\* C12: a request to a protected route without bearer token is answered 401
\* "Could not validate credentials" and changes neither table.
C12_NoTokenUnauthenticated ==
    [][ (ProtectedStep /\ last'.token = NoToken)
        => (/\ last'.status = 401
            /\ last'.detail = "Could not validate credentials"
            /\ last'.task = NoTask /\ last'.tasks = <<>>
            /\ users' = users /\ tasks' = tasks) ]_vars

\* C12 witness: with a task stored, a request without bearer token has been
\* answered 401.
C12_Witness ==
    /\ last.op \in ProtectedOps /\ last.token = NoToken
    /\ last.status = 401
    /\ Len(tasks) > 0

\* A token that carries a valid signature and has not expired.
WellSigned(tok, t) == tok.kind = "jwt" /\ tok.key = SECRET_KEY /\ ~(tok.exp < t)

\* C13: a validly signed, unexpired refresh token as the bearer token of a
\* protected route is answered 401, and a validly signed, unexpired access
\* token presented to refresh is rejected as an invalid token (401) and
\* changes nothing stored.
C13_TokenTypesNotInterchangeable ==
    [][ /\ (/\ ProtectedStep
            /\ WellSigned(last'.token, now) /\ last'.token.typ = "refresh")
           => (last'.status = 401 /\ tasks' = tasks)
        /\ (/\ RequestStep("refresh")
            /\ WellSigned(last'.token, now) /\ last'.token.typ = "access")
           => (last'.status = 401 /\ users' = users) ]_vars

\* C14: a bearer token signed with a key other than SECRET_KEY is answered
\* 401 on every protected route, whatever its subject, type and expiry; no
\* user is resolved and no task is returned or changed.
C14_ForeignKeyRejected ==
    [][ (/\ ProtectedStep
         /\ last'.token.kind = "jwt" /\ last'.token.key # SECRET_KEY)
        => (/\ last'.status = 401
            /\ last'.user = NoUser
            /\ last'.task = NoTask /\ last'.tasks = <<>>
            /\ tasks' = tasks) ]_vars

\* C14 witness: an unexpired access token naming a registered user, signed
\* with another key, has been answered 401.
C14_Witness ==
    /\ last.op \in ProtectedOps /\ last.status = 401
    /\ last.token.kind = "jwt" /\ last.token.key = OTHER_KEY
    /\ last.token.typ = "access" /\ ~(last.token.exp < last.at)
    /\ SelectUser(users, last.token.sub) # NoUser
    /\ last.at = now

\* The causes of an authentication failure: token absent, malformed, badly
\* signed, expired, of the wrong type, without subject, or naming a subject
\* that is not in the store.  (A token whose expiry is the very instant of
\* the request is not counted as expired here.)
AuthenticationFails(us, tok, t) ==
    \/ tok = NoToken
    \/ tok.kind # "jwt"
    \/ tok.key # SECRET_KEY
    \/ tok.exp < t
    \/ tok.typ # "access"
    \/ tok.sub = ""
    \/ SelectUser(us, tok.sub) = NoUser

\* C15: every authentication failure on a protected route is answered 401,
\* and with the same detail as any authentication failure answered before it.
C15_FailureDetailUniform ==
    [][ (ProtectedStep /\ AuthenticationFails(users, last'.token, now))
        => (/\ last'.status = 401
            /\ (last.op \in ProtectedOps /\ last.status = 401)
                  => last'.detail = last.detail) ]_vars

\* C16: a validly signed, unexpired access token with a subject is answered
\* 401 on a protected route when no user has that username, and otherwise
\* the handler is given the user with exactly that username; no request is
\* given a user other than the one its token names.
C16_SubjectResolvedFromStore ==
    [][ ProtectedStep =>
        /\ (/\ WellSigned(last'.token, now)
            /\ last'.token.typ = "access" /\ last'.token.sub # "")
           => IF SelectUser(users, last'.token.sub) = NoUser
              THEN last'.status = 401 /\ last'.user = NoUser
              ELSE /\ last'.status # 401
                   /\ last'.user = SelectUser(users, last'.token.sub)
                   /\ last'.user.username = last'.token.sub
        /\ last'.user # NoUser
           => (/\ last'.token.sub # ""
               /\ last'.user = SelectUser(users, last'.token.sub)) ]_vars

\* C16 witness: with a user registered, a valid access token that names
\* another, unregistered subject has been answered 401 "User not found".
C16_Witness ==
    /\ last.op \in ProtectedOps /\ last.at = now
    /\ WellSigned(last.token, now) /\ last.token.typ = "access"
    /\ last.token.sub # "" /\ SelectUser(users, last.token.sub) = NoUser
    /\ last.status = 401 /\ last.detail = "User not found"
    /\ Len(users) > 0

\* C17: delete by the task's owner answers 204 and removes the row for good;
\* delete of a missing id answers 404 and delete of another user's task
\* answers 403, both leaving the table as it was.
C17_DeleteRemovesOwnTask ==
    [][ (/\ RequestStep("delete")
         /\ get_current_user(users, last'.token, now).status = 200)
        => LET caller == get_current_user(users, last'.token, now).user
               task   == SelectTask(tasks, last'.task_id)
           IN  IF task = NoTask
               THEN last'.status = 404 /\ tasks' = tasks
               ELSE IF task.user_id # caller.id
               THEN last'.status = 403 /\ tasks' = tasks
               ELSE /\ last'.status = 204
                    /\ \A i \in 1..Len(tasks') : tasks'[i].id # last'.task_id ]_vars

\* C18: the list endpoint answers with rows of the tasks table whose user_id
\* is the id of the authenticated caller, and with no other row.
C18_ListOnlyOwnTasks ==
    [][ (RequestStep("list") /\ last'.status = 200)
        => \A i \in 1..Len(last'.tasks) :
              /\ last'.tasks[i] = SelectTask(tasks, last'.tasks[i].id)
              /\ last'.tasks[i].user_id = SelectUser(users, last'.token.sub).id ]_vars

\* C18 witness: a caller has been answered a non-empty list while the table
\* also holds a task of another user.
C18_Witness ==
    /\ last.op = "list" /\ last.status = 200 /\ last.tasks # <<>>
    /\ \E i \in 1..Len(tasks) : tasks[i].user_id # SelectUser(users, last.token.sub).id

\* The caller's tasks sorted by id ascending.
SortedOwnTasks(ts, user_id) ==
    LET ids == {i \in 1..Len(ts) : ts[i].user_id = user_id}
    IN  [k \in 1..Cardinality(ids) |-> ts[Ascending(ids)[k]]]

\* C19: list answers with the slice [offset, offset + limit) of the caller's
\* tasks sorted by id ascending (the endpoint lists with offset 0, limit 10).
C19_ListOrderedSlice ==
    [][ (RequestStep("list") /\ last'.status = 200)
        => last'.tasks =
              OffsetLimit(SortedOwnTasks(tasks, SelectUser(users, last'.token.sub).id),
                          DefaultSkip, DefaultLimit) ]_vars

\* C20: a list by the caller right after the caller's successful create
\* contains the created task as the create returned it, with the submitted
\* datetime_to_do and task_info, however many tasks the caller owns.
C20_ListAfterCreate ==
    [][ (/\ last.op = "create" /\ last.status = 201
         /\ RequestStep("list") /\ last'.token.sub = last.token.sub)
        => (/\ last'.status = 200
            /\ \E i \in 1..Len(last'.tasks) :
                  /\ last'.tasks[i] = last.task
                  /\ last'.tasks[i].datetime_to_do = last.body.datetime_to_do
                  /\ last'.tasks[i].task_info = last.body.task_info) ]_vars

\* The request was rejected as invalid input (400, or the 422 the framework
\* answers when a request fails validation).
InvalidInput(rsp) == rsp.status \in {400, 422}

\* C23: a successful create appends one task whose user_id is the id of the
\* user the bearer token names, whatever user_id the body carries, and whose
\* is_completed is FALSE; the task returned is the task stored.
C23_OwnerFromToken ==
    [][ (RequestStep("create") /\ last'.status = 201)
        => (/\ Len(tasks') = Len(tasks) + 1
            /\ SubSeq(tasks', 1, Len(tasks)) = tasks
            /\ tasks'[Len(tasks')].user_id = SelectUser(users, last'.token.sub).id
            /\ tasks'[Len(tasks')].is_completed = FALSE
            /\ last'.task = tasks'[Len(tasks')]) ]_vars

\* C23 witness: a create whose body carried the user_id of another user has
\* been answered 201 and the stored task belongs to the caller.
C23_Witness ==
    /\ last.op = "create" /\ last.status = 201
    /\ "user_id" \in last.body.fields
    /\ last.body.user_id # SelectUser(users, last.token.sub).id
    /\ SelectTask(tasks, last.task.id).user_id = SelectUser(users, last.token.sub).id

\* C24: a create by an authenticated caller whose datetime_to_do is not
\* strictly later than the clock is rejected as invalid input and stores
\* nothing.
C24_CreateRejectsNow ==
    [][ (/\ RequestStep("create")
         /\ get_current_user(users, last'.token, now).status = 200
         /\ ~(last'.body.datetime_to_do > now))
        => (InvalidInput(last') /\ tasks' = tasks) ]_vars

\* C26: when the commit of a create fails, the call rolls back once, is
\* answered 500 and leaves the tasks table as it was: nothing of the task is
\* stored and the commit is not tried again.
C26_CreateCommitFailure ==
    [][ (/\ RequestStep("create")
         /\ get_current_user(users, last'.token, now).status = 200
         /\ BodyValid(last'.body, now)
         /\ last'.db # NoError)
        => (/\ last'.status = 500
            /\ last'.rollbacks = 1
            /\ last'.task = NoTask
            /\ tasks' = tasks) ]_vars

\* C26 witness: with a task stored, a create whose commit failed has been
\* answered 500.
C26_Witness ==
    /\ last.op = "create" /\ last.db # NoError /\ last.status = 500
    /\ last.rollbacks = 1
    /\ Len(tasks) > 0

\* The messages the handlers and services raise as literals.
FixedDetails ==
    {"Username already registered", "Internal server error while registering user",
     "Incorrect username or password", "Internal server error during authentication",
     "Invalid refresh token", "Invalid token payload",
     "Internal server error while refreshing token",
     "Could not validate credentials", "Invalid token type", "User not found",
     "Task not found", "You are not allowed to read this task",
     "You are not allowed to update this task",
     "Internal server error while creating task",
     "Internal server error while retrieving task list",
     "Internal server error while retrieving task",
     "Internal server error while updating task",
     "Internal server error while deleting task",
     "Internal server error",
     "Value error, Date validation error: Task execution date must be in the future",
     "Value error, Task execution date must be in the future"}

\* C27: the detail of every error response is one of the fixed messages; it
\* never carries the text of an exception of the store.
C27_NoExceptionTextInDetail ==
    last.status >= 400 => last.detail \in FixedDetails

\* C21: a successful update sets each of datetime_to_do, task_info and
\* is_completed that the patch carries to the patch's value and leaves the
\* others as they were; id, user_id and created_at of the task and every
\* other row are unchanged, and the task returned is the task stored.
C21_PartialUpdate ==
    [][ (RequestStep("update") /\ last'.status = 200)
        => LET old == SelectTask(tasks, last'.task_id)
               new == SelectTask(tasks', last'.task_id)
           IN  /\ \A f \in TaskUpdateFields :
                     new[f] = IF f \in last'.body.fields THEN last'.body[f] ELSE old[f]
               /\ new.id = old.id
               /\ new.user_id = old.user_id
               /\ new.created_at = old.created_at
               /\ Len(tasks') = Len(tasks)
               /\ \A i \in 1..Len(tasks) : i # last'.task_id => tasks'[i] = tasks[i]
               /\ last'.task = new ]_vars

\* C21 witness: a patch of task_info alone has been applied to a task that
\* was completed earlier, and the task is still completed.
C21_Witness ==
    /\ last.op = "update" /\ last.status = 200
    /\ last.body.fields = {"task_info"}
    /\ SelectTask(tasks, last.task_id).task_info = "Walk dog"
    /\ SelectTask(tasks, last.task_id).is_completed = TRUE

\* C22: no step changes the user_id of a stored task, and no step removes
\* or renumbers a stored task.
C22_OwnerImmutable ==
    [][ /\ Len(tasks') >= Len(tasks)
        /\ \A i \in 1..Len(tasks) :
              tasks'[i].id = tasks[i].id /\ tasks'[i].user_id = tasks[i].user_id ]_vars

\* C22 witness: the owner's update whose body carried the user_id of another
\* user has been answered 200 and the task still belongs to the owner.
C22_Witness ==
    /\ last.op = "update" /\ last.status = 200
    /\ "user_id" \in last.body.fields
    /\ last.body.user_id # last.user.id
    /\ SelectTask(tasks, last.task_id).user_id = last.user.id

\* C25: an update by an authenticated caller whose patch carries a
\* datetime_to_do earlier than the clock is rejected as invalid input, and
\* the tasks table, updated_at included, is unchanged.
C25_UpdateRejectsPast ==
    [][ (/\ RequestStep("update")
         /\ get_current_user(users, last'.token, now).status = 200
         /\ "datetime_to_do" \in last'.body.fields
         /\ "datetime_to_do" \notin last'.body.nulls
         /\ last'.body.datetime_to_do < now)
        => (InvalidInput(last') /\ last'.task = NoTask /\ tasks' = tasks) ]_vars

\* C25 witness: the owner's patch with a past date has been rejected, the
\* clock being later than the last change of the task.
C25_Witness ==
    /\ last.op = "update" /\ InvalidInput(last)
    /\ last.token.sub = "alice" /\ last.task_id = 1
    /\ last.body.datetime_to_do < last.at
    /\ tasks[1].updated_at < last.at

\* C29: no step changes the created_at of a stored task, and every update
\* answered 200 leaves the task with updated_at equal to the clock.
C29_Timestamps ==
    [][ /\ \A i \in 1..Len(tasks) :
              i <= Len(tasks') => tasks'[i].created_at = tasks[i].created_at
        /\ (RequestStep("update") /\ last'.status = 200)
              => SelectTask(tasks', last'.task_id).updated_at = now ]_vars

\* C28: a request whose token has exp <= now is answered 401, on a
\* protected route and on refresh alike, exp = now included.
C28_ExpiredAtExpiry ==
    [][ ((ProtectedStep \/ RequestStep("refresh"))
         /\ last'.token.kind = "jwt" /\ last'.token.exp <= now)
        => last'.status = 401 ]_vars

\* C30: a successful register stores the new user with no refresh token,
\* and a refresh call presenting a token whose subject is a user stored
\* without refresh token is not answered 200 and leaves the user so.
C30_NoRefreshBeforeLogin ==
    [][ /\ (RequestStep("register") /\ last'.status = 201)
            => SelectUser(users', last'.username).refresh_token = NoToken
        /\ (/\ RequestStep("refresh")
            /\ SelectUser(users, last'.token.sub) # NoUser
            /\ SelectUser(users, last'.token.sub).refresh_token = NoToken)
            => (/\ last'.status # 200
                /\ last'.access_token = NoToken /\ last'.refresh_token = NoToken
                /\ SelectUser(users', last'.token.sub).refresh_token = NoToken) ]_vars

\* C30 witness: a registered user who has never logged in presented a
\* refresh token of their name, validly signed and unexpired, and the call
\* did not succeed.
C30_Witness ==
    /\ last.op = "refresh" /\ last.status # 200
    /\ last.token.typ = "refresh" /\ WellSigned(last.token, last.at)
    /\ SelectUser(users, last.token.sub) # NoUser
    /\ SelectUser(users, last.token.sub).refresh_token = NoToken

C31_FailedCommitNoEffect ==
    [][ ((RequestStep("update") \/ RequestStep("login") \/ RequestStep("refresh"))
         /\ last'.db # NoError)
        => (/\ tasks' = tasks
            /\ users' = users
            /\ last'.status >= 400
            /\ last'.task = NoTask
            /\ last'.access_token = NoToken /\ last'.refresh_token = NoToken) ]_vars

\* C31 witness: the owner's patch of task_info to another value met a
\* failing commit: answered 500 after one rollback, task_info as before.
C31_Witness ==
    /\ last.op = "update" /\ last.db # NoError
    /\ last.status = 500 /\ last.rollbacks = 1
    /\ last.body.fields = {"task_info"}
    /\ SelectTask(tasks, last.task_id).task_info # last.body.task_info

\* C37: a read or list request, and every request answered 401, 403 or
\* 404, leaves both tables as they were.
C37_ReadsAndRejectionsLeaveStore ==
    [][ (\/ RequestStep("read") \/ RequestStep("list")
         \/ ((\E op \in ProtectedOps \cup {"login", "refresh", "register"} : RequestStep(op))
             /\ last'.status \in {401, 403, 404}))
        => (users' = users /\ tasks' = tasks) ]_vars

\* C37 witness: an update with a patch, sent by a user who does not own the
\* task, has been answered 403 and the task does not carry the patch.
C37_Witness ==
    /\ last.op = "update" /\ last.status = 403
    /\ last.body.fields = {"task_info"}
    /\ SelectTask(tasks, last.task_id).task_info # last.body.task_info

Subject(rsp) == IF rsp.op = "login" THEN rsp.username ELSE rsp.token.sub

====
